---- MODULE Spec2Model ----
(***************************************************************************)
(* The mux dispatcher (mux/dispatch.c): listeners, admission control, the  *)
(* per-connection request pipeline, the upstream-failure drain and the     *)
(* liveness / teardown surface.                                            *)
(*                                                                         *)
(* Every callback is one atomic action (the reactor is single-threaded).   *)
(* A callback is written as an operator from a dispatcher record to a      *)
(* dispatcher record, composed exactly as the C functions call each other; *)
(* the field ret carries the C return value.  The reactor is not part of   *)
(* dispatch.c: the state a callback leaves behind when it returns -1 is    *)
(* kept, and its return value is recorded in cb.ret.                       *)
(***************************************************************************)
EXTENDS Integers, Sequences, FiniteSets, TLC

\* Bounds of the model.
NListen == 2        \* number of listening sockets handed to dispatch_init
MaxActive == 2      \* largest maxconn handed to dispatch_init
MaxConns == 3       \* sockets accepted over a run
MaxReqs == 2        \* request packets read over a run

Listeners == 1..NListen
ConnIds == 1..MaxConns
ReqIds == 1..MaxReqs
NULL == 0

\* The library calls of dispatch.c that can fail, and the object they fail on.
NoFault == [p |-> "none", k |-> 0]
\* "accept": network_accept returns NULL on listener k; "wdestroy", "close":
\* netbuf_write_destroy / close fails while connection k is torn down.
Simple(ps) == {[p |-> x, k |-> 0] : x \in ps}
AcceptFaults == {[p |-> "accept", k |-> i] : i \in Listeners}
DropFaults(C) == {[p |-> x, k |-> c] : x \in {"wdestroy", "close"}, c \in C}
\* The failures each callback can meet.
GotConnFaults ==
  {NoFault} \cup AcceptFaults
  \cup Simple({"malloc", "fcntl", "winit", "rinit", "readpacket"})
GotRequestFaults(S) ==
  {NoFault} \cup AcceptFaults \cup DropFaults({S})
  \cup Simple({"fmalloc", "enqueue", "readpacket"})
GotResponseFaults ==
  {NoFault} \cup AcceptFaults \cup DropFaults(ConnIds)
  \cup Simple({"writepacket"})
WritResponseFaults(S) == {NoFault} \cup AcceptFaults \cup DropFaults({S})
Faults ==
  {NoFault} \cup AcceptFaults \cup DropFaults(ConnIds)
  \cup Simple({"malloc", "fcntl", "winit", "rinit", "readpacket", "fmalloc",
               "enqueue", "writepacket"})

\* What a read of a freed sock_active record can do.
UafOutcomes == {"stale", "segv"}

VARIABLES
  accept_cookie,      \* sock_listen[i].accept_cookie != NULL
  sock_active,        \* the linked list of connections, head first
  nsock_active,       \* dstate->nsock_active
  nsock_active_max,   \* dstate->nsock_active_max
  failed,             \* dstate->failed
  conns,              \* struct sock_active records, by connection
  fwds,               \* struct forwardee records, by request
  run,                \* "running", "segv", "assert" or "done"
  cb,                 \* the last callback: name, arguments, return value
  drops,              \* the dropconn calls of the last callback
  origin              \* request -> the connection it was read from

vars == <<accept_cookie, sock_active, nsock_active, nsock_active_max, failed,
          conns, fwds, run, cb, drops, origin>>

NoConnRec == [st |-> "none", read_cookie |-> FALSE, nrequests |-> 0,
              writeq |-> <<>>]
NoFwdRec == [st |-> "none", conn |-> NULL]

\* The dispatcher record the callbacks work on.
Cur ==
  [accept_cookie |-> accept_cookie, sock_active |-> sock_active,
   nsock_active |-> nsock_active, nsock_active_max |-> nsock_active_max,
   failed |-> failed, conns |-> conns, fwds |-> fwds, run |-> run,
   drops |-> <<>>, already |-> FALSE,
   uaf |-> FALSE, hit |-> FALSE, ret |-> 0]

Ret(d, r) == [d EXCEPT !.ret = r]

\* A faulty variant of Remove: the head is unlinked, whatever x is.
Remove_head(s, x) == Tail(s)

\* A faulty variant of Remove: the node stays linked.
Remove_not(s, x) == s

RECURSIVE Remove(_, _)
\* dropconn's unlinking of node x from the list s.
Remove(s, x) ==
  IF s = <<>> THEN <<>>
  ELSE IF Head(s) = x THEN Tail(s)
  ELSE <<Head(s)>> \o Remove(Tail(s), x)

RECURSIVE From(_, _)
\* The nodes reached from x by following next pointers, x included.
From(s, x) ==
  IF s = <<>> THEN <<>>
  ELSE IF Head(s) = x THEN s
  ELSE From(Tail(s), x)

\* A faulty variant of accept_stop: the accepts are left armed.
accept_stop_not(d) == d

accept_stop(d) ==
  [d EXCEPT !.accept_cookie = [i \in Listeners |-> FALSE]]

accept_start(d, flt) ==
  IF \E i \in Listeners : d.accept_cookie[i]
  THEN [d EXCEPT !.already = TRUE, !.ret = -1]
  ELSE IF flt.p = "accept"
  THEN Ret(accept_stop([d EXCEPT !.hit = TRUE, !.accept_cookie =
                          [i \in Listeners |-> i < flt.k]]), -1)
  ELSE [d EXCEPT !.accept_cookie = [i \in Listeners |-> TRUE], !.ret = 0]

\* A faulty variant of was_full: the comparison made after the decrement.
was_full_after(d) == d.nsock_active - 1 = d.nsock_active_max

\* dropconn's test "nsock_active-- == nsock_active_max".
was_full(d) == d.nsock_active = d.nsock_active_max

dropconn(d, S, flt) ==
  LET entry == [conn |-> S, read_cookie |-> d.conns[S].read_cookie,
                nrequests |-> d.conns[S].nrequests,
                nsock_active |-> d.nsock_active, failed |-> d.failed,
                before |-> d.accept_cookie]
  IN
  IF d.conns[S].read_cookie \/ d.conns[S].nrequests # 0
  THEN [d EXCEPT !.run = "assert", !.ret = -1,
                 !.drops = Append(@, entry @@ [after |-> d.accept_cookie,
                                               left |-> d.nsock_active,
                                               ret |-> -1])]
  ELSE
    LET d1 == [d EXCEPT !.sock_active = Remove(@, S),
                        !.nsock_active = @ - 1,
                        !.conns[S].st = "freed"]
        d2 == IF was_full(d)
              THEN accept_start(d1, flt)
              ELSE Ret(d1, 0)
        io == d2.ret = 0 /\ flt.p \in {"wdestroy", "close"} /\ flt.k = S
        r == IF d2.ret # 0 \/ io THEN -1 ELSE 0
    IN [d2 EXCEPT !.ret = r, !.hit = @ \/ io,
                  !.drops = Append(@, entry @@ [after |-> d2.accept_cookie,
                                                left |-> d2.nsock_active,
                                                ret |-> r])]

readreq(d, S, flt) ==
  IF d.conns[S].read_cookie
  THEN [d EXCEPT !.run = "assert", !.ret = -1]
  ELSE IF flt.p = "readpacket"
  THEN [d EXCEPT !.conns[S].read_cookie = FALSE, !.hit = TRUE, !.ret = -1]
  ELSE [d EXCEPT !.conns[S].read_cookie = TRUE, !.ret = 0]

readreq_cancel(d, S, flt) ==
  LET d1 == [d EXCEPT !.conns[S].read_cookie = FALSE]
  IN IF d1.conns[S].nrequests = 0 THEN dropconn(d1, S, flt) ELSE Ret(d1, 0)

\* A faulty variant of reqdone: the armed read is not looked at.
reqdone_anyread(d, S, flt) ==
  LET d1 == [d EXCEPT !.conns[S].nrequests = @ - 1]
  IN IF d1.conns[S].nrequests = 0
     THEN dropconn(d1, S, flt)
     ELSE Ret(d1, 0)

\* A faulty variant of reqdone: the idle connection is not destroyed.
reqdone_keep(d, S, flt) ==
  Ret([d EXCEPT !.conns[S].nrequests = @ - 1], 0)

reqdone(d, S, flt) ==
  LET d1 == [d EXCEPT !.conns[S].nrequests = @ - 1]
  IN IF d1.conns[S].nrequests = 0 /\ ~d1.conns[S].read_cookie
     THEN dropconn(d1, S, flt)
     ELSE Ret(d1, 0)

\* A faulty variant of want_more: an off-by-one admission test.
want_more_le(d) == d.nsock_active <= d.nsock_active_max

\* callback_gotconn's test "++nsock_active < nsock_active_max", after the
\* increment.
want_more(d) == d.nsock_active < d.nsock_active_max

callback_gotconn(d, L, s, flt) ==
  LET d0 == [d EXCEPT !.accept_cookie[L] = FALSE]
  IN
  IF s = -1 THEN Ret(d0, -1)
  ELSE
    LET d1 == accept_stop(d0)
    IN
    IF flt.p \in {"malloc", "fcntl", "winit", "rinit"}
    THEN [d1 EXCEPT !.hit = TRUE, !.ret = -1]
    ELSE
      LET d2 == readreq([d1 EXCEPT !.conns[s] =
                           [st |-> "live", read_cookie |-> FALSE,
                            nrequests |-> 0, writeq |-> <<>>]], s, flt)
      IN
      IF d2.ret # 0 THEN Ret([d2 EXCEPT !.conns[s] = NoConnRec], -1)
      ELSE
        LET d3 == [d2 EXCEPT !.sock_active = <<s>> \o @,
                             !.nsock_active = @ + 1]
        IN IF want_more(d3)
           THEN accept_start(d3, flt)
           ELSE Ret(d3, 0)

\* A faulty variant of clear_read: the read cookie is left set.
clear_read_not(d, S) == d

\* callback_gotrequest's "S->read_cookie = NULL".
clear_read(d, S) == [d EXCEPT !.conns[S].read_cookie = FALSE]

\* A faulty variant of count_request: the request is not counted.
count_request_not(n) == n

\* callback_gotrequest's "S->nrequests++".
count_request(n) == n + 1

callback_gotrequest(d, S, P, flt) ==
  LET d0 == clear_read(d, S)
  IN
  IF P = NULL
  THEN IF d0.conns[S].nrequests = 0 THEN dropconn(d0, S, flt) ELSE Ret(d0, 0)
  ELSE IF flt.p = "fmalloc" THEN [d0 EXCEPT !.hit = TRUE, !.ret = -1]
  ELSE
    LET d1 == [d0 EXCEPT !.fwds[P] = [st |-> "upstream", conn |-> S],
                         !.conns[S].nrequests = count_request(@)]
    IN IF flt.p = "enqueue"
       THEN [d1 EXCEPT !.fwds[P].st = "freed", !.hit = TRUE, !.ret = -1]
       ELSE readreq(d1, S, flt)

RECURSIVE cancel_reads(_, _, _)
\* The loop of callback_gotresponse's failed branch over the nodes in walk.
cancel_reads(d, walk, flt) ==
  IF walk = <<>> THEN Ret(d, 0)
  ELSE
    LET S == Head(walk)
    IN IF d.conns[S].read_cookie
       THEN LET r == readreq_cancel(d, S, flt)
            IN IF r.ret # 0 THEN Ret(r, -1)
               ELSE cancel_reads(r, Tail(walk), flt)
       ELSE cancel_reads(d, Tail(walk), flt)

\* A faulty variant of writer_conn: the response goes to the newest connection.
writer_conn_head(d, F) == Head(d.sock_active)

\* The connection whose writer takes the response of F: S = F->conn.
writer_conn(d, F) == d.fwds[F].conn

callback_gotresponse(d, F, buf, flt, uaf) ==
  LET S == d.fwds[F].conn
      W == writer_conn(d, F)
  IN
  IF buf = NULL
  THEN
    LET walk == From(d.sock_active, S)
        d1 == reqdone([d EXCEPT !.fwds[F].st = "freed"], S, flt)
    IN
    IF d1.ret # 0 THEN Ret(d1, -1)
    ELSE IF d1.conns[S].st = "freed" /\ uaf = "segv"
    THEN [d1 EXCEPT !.uaf = TRUE, !.run = "segv", !.ret = -1]
    ELSE
      LET d2 == [accept_stop(d1) EXCEPT
                   !.failed = TRUE,
                   !.uaf = (d1.conns[S].st = "freed")]
      IN cancel_reads(d2, walk, flt)
  ELSE IF flt.p = "writepacket"
  THEN [d EXCEPT !.fwds[F].st = "freed", !.hit = TRUE, !.ret = -1]
  ELSE [d EXCEPT !.fwds[F].st = "writing",
                 !.conns[W].writeq = Append(@, F),
                 !.ret = 0]

\* A faulty variant of callback_writresponse: a failed write starts the drain.
callback_writresponse_drain(d, F, wfailed, flt) ==
  LET S == d.fwds[F].conn
      d1 == reqdone([d EXCEPT !.fwds[F].st = "freed",
                              !.conns[S].writeq = Tail(@)], S, flt)
  IN IF wfailed # 0 /\ d1.ret = 0
     THEN [accept_stop(d1) EXCEPT !.failed = TRUE]
     ELSE d1

callback_writresponse(d, F, wfailed, flt) ==
  LET S == d.fwds[F].conn
  IN reqdone([d EXCEPT !.fwds[F].st = "freed",
                       !.conns[S].writeq = Tail(@)], S, flt)

dispatch_alive(d) == (d.failed = FALSE) \/ (d.nsock_active > 0)

dispatch_done(d) ==
  IF d.failed /\ d.sock_active = <<>> /\ d.nsock_active = 0
  THEN [d EXCEPT !.run = "done", !.ret = 0]
  ELSE [d EXCEPT !.run = "assert", !.ret = -1]

----
\* The state after dispatch_init has succeeded.
Init ==
  /\ accept_cookie = [i \in Listeners |-> TRUE]
  /\ sock_active = <<>>
  /\ nsock_active = 0
  /\ nsock_active_max \in 1..MaxActive
  /\ failed = FALSE
  /\ conns = [c \in ConnIds |-> NoConnRec]
  /\ fwds = [f \in ReqIds |-> NoFwdRec]
  /\ run = "running"
  /\ cb = [name |-> "init", arg |-> 0, in |-> 0, flt |-> "none", ret |-> 0,
           uaf |-> FALSE, already |-> FALSE]
  /\ drops = <<>>
  /\ origin = [f \in ReqIds |-> NULL]

Commit(r, name, arg, in, flt) ==
  /\ accept_cookie' = r.accept_cookie
  /\ sock_active' = r.sock_active
  /\ nsock_active' = r.nsock_active
  /\ nsock_active_max' = r.nsock_active_max
  /\ failed' = r.failed
  /\ conns' = r.conns
  /\ fwds' = r.fwds
  /\ run' = r.run
  /\ drops' = r.drops
  /\ cb' = [name |-> name, arg |-> arg, in |-> in,
            flt |-> IF r.hit THEN flt.p ELSE "none",
            ret |-> r.ret, uaf |-> r.uaf, already |-> r.already]

\* The next unused connection / request identifier, if the bound allows one.
NewConn == {c \in ConnIds : /\ conns[c].st = "none"
                            /\ \A c2 \in 1..(c - 1) : conns[c2].st # "none"}
NewReq == {f \in ReqIds : /\ fwds[f].st = "none"
                          /\ \A f2 \in 1..(f - 1) : fwds[f2].st # "none"}

\* An armed accept completes on listener L, with a socket or with an error;
\* the library calls of the callback fail as some member of FS says.
GotConnF(FS) ==
  /\ run = "running"
  /\ \E L \in Listeners, s \in {-1} \cup NewConn :
     \E flt \in GotConnFaults \cap FS :
       /\ accept_cookie[L]
       /\ Commit(callback_gotconn(Cur, L, s, flt), "gotconn", 0, s, flt)
       /\ origin' = origin

\* An armed read completes on connection S, with a packet or without.
GotRequestF(FS) ==
  /\ run = "running"
  /\ \E S \in ConnIds, P \in {NULL} \cup NewReq :
     \E flt \in GotRequestFaults(S) \cap FS :
       /\ conns[S].st = "live"
       /\ conns[S].read_cookie
       /\ Commit(callback_gotrequest(Cur, S, P, flt), "gotrequest", S, P, flt)
       /\ origin' = IF P # NULL /\ flt.p # "fmalloc"
                    THEN [origin EXCEPT ![P] = S] ELSE origin

\* The request queue answers request F, with a response or with a failure.
GotResponseF(FS) ==
  /\ run = "running"
  /\ \E F \in ReqIds, buf \in {NULL, 1}, uaf \in UafOutcomes :
     \E flt \in GotResponseFaults \cap FS :
       /\ fwds[F].st = "upstream"
       /\ Commit(callback_gotresponse(Cur, F, buf, flt, uaf),
                 "gotresponse", F, buf, flt)
       /\ origin' = origin

\* The writer of a connection finishes (or fails) its oldest queued write.
WritResponseF(FS) ==
  /\ run = "running"
  /\ \E F \in ReqIds, wfailed \in {0, 1} :
     \E flt \in WritResponseFaults(fwds[F].conn) \cap FS :
       /\ fwds[F].st = "writing"
       /\ conns[fwds[F].conn].writeq # <<>>
       /\ Head(conns[fwds[F].conn].writeq) = F
       /\ Commit(callback_writresponse(Cur, F, wfailed, flt),
                 "writresponse", F, wfailed, flt)
       /\ origin' = origin

GotConn == GotConnF(Faults)
GotRequest == GotRequestF(Faults)
GotResponse == GotResponseF(Faults)
WritResponse == WritResponseF(Faults)

\* The supervising loop sees dispatch_alive return 0 and calls dispatch_done.
Done ==
  /\ run = "running"
  /\ ~dispatch_alive(Cur)
  /\ Commit(dispatch_done(Cur), "done", 0, 0, NoFault)
  /\ origin' = origin

Next == GotConn \/ GotRequest \/ GotResponse \/ WritResponse \/ Done

Spec == Init /\ [][Next]_vars

\* The runs in which no library call fails and the clients fall silent once
\* the dispatcher has failed (no accept and no read completes after that),
\* under the drain assumption: the request queue answers every request it
\* holds, and every writer completes (or fails) every write it was given.
ClientConnects == ~failed /\ GotConnF({NoFault})
ClientSends == ~failed /\ GotRequestF({NoFault})
Answered == GotResponseF({NoFault})
Written == WritResponseF({NoFault})

NextDrain == ClientConnects \/ ClientSends \/ Answered \/ Written \/ Done

SpecDrain ==
  /\ Init
  /\ [][NextDrain]_vars
  /\ WF_vars(Answered)
  /\ WF_vars(Written)

----
\* The requests of connection c that are with the request queue or with c's
\* writer: enqueued, and neither their write callback nor their failure
\* response has fired.
InFlight(c) == {f \in ReqIds : /\ fwds[f].conn = c
                               /\ fwds[f].st \in {"upstream", "writing"}}

AllArmed(a) == \A L \in Listeners : a[L]
NoneArmed(a) == \A L \in Listeners : ~a[L]

C2_ResponsesToOrigin ==
  [][(cb'.name = "gotresponse" /\ cb'.in # NULL /\ cb'.ret = 0) =>
       LET F == cb'.arg
       IN /\ origin[F] \in ConnIds
          /\ conns'[origin[F]].writeq = Append(conns[origin[F]].writeq, F)
          /\ \A c \in ConnIds \ {origin[F]} :
               conns'[c].writeq = conns[c].writeq]_vars

\* C2 witness: two requests of one connection are with its writer, in the
\* opposite order to the one they were read in.
C2_Witness ==
  \E c \in ConnIds : /\ Len(conns[c].writeq) = 2
                     /\ conns[c].writeq[1] > conns[c].writeq[2]
                     /\ origin[conns[c].writeq[1]] = c
                     /\ origin[conns[c].writeq[2]] = c

\* C3 (as claimed): nrequests of every connection equals the number of its
\* requests that were enqueued and have not been completed.
C3_RequestsAccounted ==
  \A c \in ConnIds :
    conns[c].st = "live" => conns[c].nrequests = Cardinality(InFlight(c))

\* C4: when dispatch_alive returns 0, failed is set, the list is empty and
\* nsock_active is 0; dispatch_done called then passes its assertions.
C4_NotAliveIsDrained ==
  /\ ~dispatch_alive(Cur) =>
       /\ failed
       /\ sock_active = <<>>
       /\ nsock_active = 0
  /\ cb.name = "done" => run = "done"

\* C4 witness: dispatch_done has run after dispatch_alive returned 0.
C4_Witness ==
  /\ cb.name = "done"
  /\ run = "done"
  /\ \E c \in ConnIds : conns[c].st = "freed"

\* C5 (as claimed): once failed is set, and given only that response and
\* write callbacks keep firing, the dispatcher reaches a state in which no
\* connection is left, nsock_active is 0 and dispatch_alive returns 0.
\* (A process that has stopped is not held against the claim.)
C5_DrainTerminates ==
  (failed /\ run = "running")
    ~> \/ run # "running"
       \/ /\ sock_active = <<>>
          /\ nsock_active = 0
          /\ ~dispatch_alive(Cur)

\* C6 (as claimed): once failed is set, no connection is added and no
\* forwardee is created.
C6_NothingNewAfterFailed ==
  [][failed =>
       /\ \A c \in ConnIds : conns[c].st = "none" => conns'[c].st = "none"
       /\ \A f \in ReqIds : fwds[f].st = "none" => fwds'[f].st = "none"]_vars

\* C7 (as claimed): between callbacks every listener has an armed accept
\* iff nsock_active < nsock_active_max and the dispatcher has not failed.
C7_ArmedIffAdmitting ==
  run = "running" =>
    \A L \in Listeners :
      accept_cookie[L] <=> (nsock_active < nsock_active_max /\ ~failed)

\* C8 (as claimed): a connection destroyed at nsock_active =
\* nsock_active_max with failed clear leaves every listener armed and
\* nsock_active = nsock_active_max - 1; one destroyed below the limit
\* leaves the accept handles as they were.
C8_ReopenOnDrop ==
  \A i \in DOMAIN drops :
    LET e == drops[i]
    IN /\ (e.nsock_active = nsock_active_max /\ ~e.failed) =>
            /\ AllArmed(e.after)
            /\ e.left = nsock_active_max - 1
       /\ e.nsock_active < nsock_active_max => e.after = e.before

\* C8 (amended): as C8, but the listeners are armed only if accept_start
\* succeeds (if network_accept fails none is armed and dropconn returns
\* -1), and they are still armed when the callback returns, so that a
\* waiting client can be admitted, unless the callback is the response
\* callback of a failed request, which cancels them.
C8_ReopenOnDropAmended ==
  \A i \in DOMAIN drops :
    LET e == drops[i]
    IN /\ (e.nsock_active = nsock_active_max /\ ~e.failed) =>
            /\ e.left = nsock_active_max - 1
            /\ cb.flt # "accept" => AllArmed(e.after)
            /\ cb.flt = "accept" => NoneArmed(e.after) /\ e.ret = -1
            /\ (cb.flt # "accept" /\ cb.name # "gotresponse") =>
                 /\ AllArmed(accept_cookie)
                 /\ nsock_active = nsock_active_max - 1
       /\ e.nsock_active < nsock_active_max => e.after = e.before

\* C8 witness: a read completion without a packet destroyed a connection
\* that held the last slot, and the listeners are armed again.
C8_Witness ==
  /\ cb.name = "gotrequest"
  /\ cb.ret = 0
  /\ Len(drops) = 1
  /\ drops[1].nsock_active = nsock_active_max
  /\ ~drops[1].failed
  /\ AllArmed(accept_cookie)

\* C9 (as claimed): after an accept callback that was handed an error, or
\* that failed while it built the connection, while the dispatcher has not
\* failed and nsock_active < nsock_active_max, some listener has an armed
\* accept.
C9_AcceptFailureNotCrippling ==
  (/\ run = "running"
   /\ cb.name = "gotconn"
   /\ cb.ret = -1
   /\ \/ cb.in = -1
      \/ cb.flt \in {"malloc", "fcntl", "winit", "rinit", "readpacket"}
   /\ ~failed
   /\ nsock_active < nsock_active_max)
  => \E L \in Listeners : accept_cookie[L]

\* Why the listeners do not regain an accept after C9's failure: while the
\* dispatcher has not failed and nsock_active < nsock_active_max, no
\* callback arms an accept when none is armed.
StaysUnarmed ==
  [][(/\ ~failed
      /\ nsock_active < nsock_active_max
      /\ NoneArmed(accept_cookie))
     => NoneArmed(accept_cookie')]_vars

\* The part of the state a write callback for request F may not touch, by
\* C10: the failed flag, the accept handles, the other connections.
WriteFrame(F) ==
  /\ failed' = failed
  /\ \A c \in ConnIds \ {fwds[F].conn} :
       /\ conns'[c].read_cookie = conns[c].read_cookie
       /\ conns'[c].nrequests = conns[c].nrequests

\* A failed write callback for F behaves as a successful one.
WriteSameEffect(F) ==
  \A flt \in WritResponseFaults(fwds[F].conn) :
    callback_writresponse(Cur, F, 1, flt) = callback_writresponse(Cur, F, 0, flt)

\* C10 (as claimed): a write callback with the failure flag set acts as a
\* successful one and leaves the failed flag, every accept handle and the
\* other connections' read handles and nrequests unchanged.
C10_FailedWriteNoDrain ==
  [][(cb'.name = "writresponse" /\ cb'.in = 1) =>
       /\ WriteSameEffect(cb'.arg)
       /\ WriteFrame(cb'.arg)
       /\ accept_cookie' = accept_cookie]_vars

\* C10 (amended): as C10, but the accept handles are unchanged only when
\* the callback does not destroy a connection that held the last slot; in
\* that case dropconn calls accept_start, as after a successful write.
C10_FailedWriteNoDrainAmended ==
  [][(cb'.name = "writresponse" /\ cb'.in = 1) =>
       /\ WriteSameEffect(cb'.arg)
       /\ WriteFrame(cb'.arg)
       /\ \/ accept_cookie' = accept_cookie
          \/ /\ nsock_active = nsock_active_max
             /\ conns'[fwds[cb'.arg].conn].st = "freed"]_vars

\* C10 witness: a failed write was the last thing a connection waited for,
\* and the connection has been destroyed.
C10_Witness ==
  /\ cb.name = "writresponse"
  /\ cb.in = 1
  /\ cb.ret = 0
  /\ Len(drops) = 1
  /\ ~failed

\* The connections in the list.
Linked == {sock_active[i] : i \in DOMAIN sock_active}

\* C11 (as claimed): when the response callback of a failed request has
\* returned, no connection in the list has an armed read.
C11_AllReadsCancelled ==
  (/\ run = "running"
   /\ cb.name = "gotresponse"
   /\ cb.in = NULL
   /\ cb.ret = 0)
  => \A c \in Linked : ~conns[c].read_cookie

\* C12: on every entry to dropconn the connection has no armed read and
\* nrequests = 0, so dropconn's assertions hold.
C12_DropOnlyIdle ==
  \A i \in DOMAIN drops :
    /\ ~drops[i].read_cookie
    /\ drops[i].nrequests = 0

\* C12 witness: one response callback of a failed request has entered
\* dropconn twice, from reqdone and from readreq_cancel.
C12_Witness ==
  /\ cb.name = "gotresponse"
  /\ cb.in = NULL
  /\ Len(drops) = 2
  /\ ~drops[1].failed
  /\ drops[2].failed

\* C13 (as claimed): between callbacks every connection in the list has an
\* armed read or nrequests > 0.
C13_NoIdleLingers ==
  run = "running" =>
    \A c \in Linked : conns[c].read_cookie \/ conns[c].nrequests > 0

\* C14: every forwardee whose response or write callback has not fired
\* refers to a connection that is allocated, in the list, and has
\* nrequests > 0.
C14_ForwardeeConnLive ==
  \A f \in ReqIds :
    fwds[f].st \in {"upstream", "writing"} =>
      /\ fwds[f].conn \in ConnIds
      /\ conns[fwds[f].conn].st = "live"
      /\ fwds[f].conn \in Linked
      /\ conns[fwds[f].conn].nrequests > 0

\* C14 witness: a connection whose read has ended is kept for the forwardee
\* that waits in its writer.
C14_Witness ==
  \E f \in ReqIds :
    /\ fwds[f].st = "writing"
    /\ fwds[f].conn \in Linked
    /\ ~conns[fwds[f].conn].read_cookie
    /\ conns[fwds[f].conn].nrequests = 1

\* C15 (as claimed): the response callback of a failed request reads no
\* field of a connection record that reqdone has destroyed.
C15_NoUseAfterFree == ~cb.uaf

\* The connection has no armed read and still has requests in flight.
Ended(c) ==
  /\ conns[c].st = "live"
  /\ ~conns[c].read_cookie
  /\ conns[c].nrequests > 0

\* C16: a read completion without a packet keeps the connection in the list,
\* unarmed, when nrequests > 0 and destroys it at once when nrequests = 0;
\* from then on no step arms a read on it, and a step destroys it exactly
\* when it brings nrequests to 0.
C16_MidPipelineEof ==
  [][/\ \A c \in ConnIds :
          (/\ cb'.name = "gotrequest"
           /\ cb'.arg = c
           /\ cb'.in = NULL)
          => IF conns[c].nrequests > 0
             THEN /\ Ended(c)'
                  /\ c \in Linked'
                  /\ conns'[c].nrequests = conns[c].nrequests
             ELSE /\ conns'[c].st = "freed"
                  /\ c \notin Linked'
     /\ \A c \in ConnIds :
          (Ended(c) /\ c \in Linked)
          => /\ ~conns'[c].read_cookie
             /\ conns'[c].nrequests <= conns[c].nrequests
             /\ IF conns'[c].nrequests = 0
                THEN conns'[c].st = "freed" /\ c \notin Linked'
                ELSE Ended(c)' /\ c \in Linked'
    ]_vars

\* C16 witness: the read of a connection with two requests in flight has
\* ended, and the connection is kept.
C16_Witness ==
  /\ cb.name = "gotrequest"
  /\ cb.in = NULL
  /\ cb.ret = 0
  /\ Ended(cb.arg)
  /\ conns[cb.arg].nrequests = 2
  /\ cb.arg \in Linked

\* The step is a read completion on c that delivers a packet and whose
\* enqueue succeeds.
Enqueued(c) ==
  /\ cb'.name = "gotrequest"
  /\ cb'.arg = c
  /\ cb'.in # NULL
  /\ cb'.flt \notin {"fmalloc", "enqueue"}

\* C17 (as claimed): a read completion that delivers a packet and whose
\* enqueue succeeds increases nrequests by exactly one and arms the next
\* read in the same callback; readreq is never entered with a read armed.
C17_PipelinedSingleRead ==
  [][/\ \A c \in ConnIds :
          Enqueued(c) =>
            /\ conns'[c].nrequests = conns[c].nrequests + 1
            /\ conns'[c].read_cookie
            /\ fwds'[cb'.in].st = "upstream"
     /\ run' # "assert"
    ]_vars

\* C17 (amended): as above, but the next read is armed unless
\* wire_readpacket fails, in which case the callback returns failure with
\* no read armed on the connection.
C17_PipelinedSingleReadAmended ==
  [][/\ \A c \in ConnIds :
          Enqueued(c) =>
            /\ conns'[c].nrequests = conns[c].nrequests + 1
            /\ fwds'[cb'.in].st = "upstream"
            /\ fwds'[cb'.in].conn = c
            /\ IF cb'.flt = "readpacket"
               THEN ~conns'[c].read_cookie /\ cb'.ret = -1
               ELSE conns'[c].read_cookie /\ cb'.ret = 0
     /\ run' # "assert"
    ]_vars

\* C17 witness: a connection has two requests in flight, neither answered,
\* and its next read is armed.
C17_Witness ==
  /\ cb.name = "gotrequest"
  /\ cb.in # NULL
  /\ cb.ret = 0
  /\ conns[cb.arg].nrequests = 2
  /\ conns[cb.arg].read_cookie
  /\ \A f \in ReqIds : fwds[f].st = "upstream" /\ fwds[f].conn = cb.arg

\* C18 (as claimed): after a read completion that failed in the forwardee
\* allocation or the enqueue, or a response callback that failed in the
\* write submission, the forwardee is freed and the connection's nrequests
\* equals the number of its live forwardees.
C18_FailedSubmissionValid ==
  \A c \in ConnIds :
    (/\ cb.ret = -1
     /\ \/ cb.name = "gotrequest" /\ cb.arg = c
              /\ cb.flt \in {"fmalloc", "enqueue"}
        \/ cb.name = "gotresponse" /\ fwds[cb.arg].conn = c
              /\ cb.flt = "writepacket")
    => conns[c].nrequests = Cardinality(InFlight(c))

\* C19: accept_start is never entered while a listener has an armed accept.
C19_AcceptStartUnarmed == ~cb.already

\* C19 witness: a teardown at nsock_active = nsock_active_max has called
\* accept_start with no accept armed, and armed them all.
C19_Witness ==
  /\ Len(drops) = 1
  /\ drops[1].nsock_active = nsock_active_max
  /\ ~drops[1].failed
  /\ NoneArmed(drops[1].before)
  /\ AllArmed(drops[1].after)
  /\ cb.ret = 0

\* C20: between callbacks nsock_active is the number of connections in the
\* list, and the list holds exactly the allocated connections, each once.
C20_CountMatchesList ==
  /\ nsock_active = Len(sock_active)
  /\ Cardinality(Linked) = Len(sock_active)
  /\ Linked = {c \in ConnIds : conns[c].st = "live"}

\* C20 witness: a teardown whose accept_start failed has left one
\* connection linked and counted.
C20_Witness ==
  /\ cb.flt = "accept"
  /\ cb.ret = -1
  /\ Len(drops) = 1
  /\ nsock_active = 1
  /\ Len(sock_active) = 1

====
